---- MODULE Spec2Model ----
(***************************************************************************)
(* Model of the rendering core of dot-txt (src/lib/canvas.rs): the 3x5     *)
(* bitmap cell, the glyph similarity metric, the 32768-entry bitmap font   *)
(* with its text (de)serialization, and the canvas with its coordinate     *)
(* transforms and drawing primitives.                                      *)
(*                                                                         *)
(* Characters are Unicode scalar values (integers).  A Rust String is the  *)
(* sequence of its UTF-8 bytes.  An f64 of the similarity metric is the    *)
(* exact triple <<i, hi, lo>> standing for i + (hi * 2^26 + lo) / 2^52,    *)
(* rounded after every addition the way IEEE-754 binary64 rounds.          *)
(***************************************************************************)
EXTENDS Integers, Sequences, FiniteSets, TLC

VARIABLES
    \* ---- Canvas (struct Canvas) and its history ----
    data,        \* Canvas::data, a sequence of cells, row-major
    width,       \* Canvas::width, number of cell columns
    scale,       \* Canvas::scale, <<sx, sy>> in units of 1/Den
    footnotes,   \* Canvas::footnotes
    prev,        \* history: data before the last drawing call
    last,        \* history: the last drawing call and its arguments
    written,     \* history: cell index -> character of the last text write
    ncalls,      \* history: number of drawing calls made
    made,        \* history: the canvas as Canvas::new returned it
    alt,         \* the canvas data had the last two calls been made in the other order
    output,      \* the lines written to the Formatter of render / debug_render
    rpc,         \* position in the rendering
    \* ---- BitmapFont pipeline (font-gen + BitmapFont::default) ----
    charset,     \* the reference set handed to BitmapFont::generate
    font,        \* BitmapFont::data of the generated font
    text,        \* the serialized font / the text handed to deserialize
    loaded,      \* outcome of BitmapFont::deserialize
    fpc,         \* position in the font pipeline
    gidx,        \* the index of one iteration of generate's outer loop
    gchar,       \* the character that iteration stores in font.data[gidx]
    \* ---- BitmapChar operations ----
    lit,         \* u16 literal handed to BitmapChar::from_bits
    ba,          \* a BitmapChar
    bb,          \* another BitmapChar
    sim,         \* result of ba.similarity(bb)
    npokes,      \* history: number of poke calls made on bb
    bpc,         \* position in the bitmap operations
    \* ---- coordinate translation ----
    cin,         \* input coordinate <<x, y>> in units of 1/Den
    cpix,        \* result of translate_in_to_pix
    cchr,        \* result of translate_in_to_char
    cpc          \* position in the coordinate translation

canvasVars == <<data, width, scale, footnotes, prev, last, written, ncalls,
                made, alt, output, rpc>>
fontVars   == <<charset, font, text, loaded, fpc, gidx, gchar>>
bitmapVars == <<lit, ba, bb, sim, npokes, bpc>>
coordVars  == <<cin, cpix, cchr, cpc>>
vars == <<data, width, scale, footnotes, prev, last, written, ncalls,
          made, alt, output, rpc,
          charset, font, text, loaded, fpc, gidx, gchar,
          lit, ba, bb, sim, npokes, bpc,
          cin, cpix, cchr, cpc>>

----------------------------------------------------------------------------
(* Machine integers                                                        *)

\* 2^k for the shift amounts that occur (k <= 16)
Pow2Table == <<1, 2, 4, 8, 16, 32, 64, 128, 256, 512, 1024, 2048, 4096,
               8192, 16384, 32768, 65536>>
Pow2(k) == Pow2Table[k + 1]

\* bit k of the unsigned value v
Bit(v, k) == (v \div Pow2(k)) % 2

RECURSIVE BitAndFrom(_, _, _)
BitAndFrom(a, b, k) ==
    IF k = 16 THEN 0
    ELSE Pow2(k) * Bit(a, k) * Bit(b, k) + BitAndFrom(a, b, k + 1)

\* u16 & u16
BitAnd(a, b) == BitAndFrom(a, b, 0)

\* u16 | u16
BitOr(a, b) == a + b - BitAnd(a, b)

\* u16 << k and u16 >> k (bits shifted out are dropped)
Shl16(v, k) == (v * Pow2(k)) % 65536
Shr16(v, k) == v \div Pow2(k)

\* `as i64` of a non-NaN f64 n/d (d > 0): truncation toward zero
TruncDiv(n, d) == IF n >= 0 THEN n \div d ELSE -((-n) \div d)

----------------------------------------------------------------------------
(* f64 as used by the similarity metric                                    *)

Limb == 67108864    \* 2^26

F64Zero == <<0, 0, 0>>
F64One  == <<1, 0, 0>>
F64Two  == <<2, 0, 0>>
\* 2f64.sqrt() = 0x3FF6A09E667F3BCD
F64Sqrt2 == <<1, 27797401, 41892813>>

\* ((n) as f64).sqrt() for the n = sx*sx + sy*sy that occur
F64SqrtOf(n) == CASE n = 0 -> F64Zero
                  [] n = 1 -> F64One
                  [] n = 2 -> F64Sqrt2

\* f64::INFINITY (the only non-finite value that occurs), encoded apart
F64Infinity == <<-1, 0, 0>>

\* f64 < f64
F64Less(p, q) ==
    IF p[1] = -1 THEN FALSE
    ELSE IF q[1] = -1 THEN TRUE
    ELSE \/ p[1] < q[1]
         \/ p[1] = q[1] /\ p[2] < q[2]
         \/ p[1] = q[1] /\ p[2] = q[2] /\ p[3] < q[3]

\* f64::min
F64Min(p, q) == IF F64Less(q, p) THEN q ELSE p

\* number of low fraction bits binary64 cannot hold for integer part i
DropBits(i) == IF i < 2 THEN 0
               ELSE IF i < 4 THEN 1
               ELSE IF i < 8 THEN 2
               ELSE IF i < 16 THEN 3
               ELSE IF i < 32 THEN 4
               ELSE 5

\* carry-normalise an exact sum
F64Carry(i, hi, lo) ==
    LET hi2 == hi + lo \div Limb
    IN  <<i + hi2 \div Limb, hi2 % Limb, lo % Limb>>

\* round-to-nearest-even to the precision of binary64
F64Round(v) ==
    LET u    == Pow2(DropBits(v[1]))
        r    == v[3] % u
        q    == v[3] - r
        up   == \/ 2 * r > u
                \/ 2 * r = u /\ (q \div u) % 2 = 1
    IN  IF r = 0 THEN v
        ELSE IF up THEN F64Carry(v[1], v[2], q + u)
        ELSE <<v[1], v[2], q>>

\* f64 + f64
F64Add(p, q) ==
    IF p[2] = 0 /\ p[3] = 0 /\ q[2] = 0 /\ q[3] = 0
    THEN <<p[1] + q[1], 0, 0>>
    ELSE F64Round(F64Carry(p[1] + q[1], p[2] + q[2], p[3] + q[3]))

----------------------------------------------------------------------------
(* BitmapChar                                                              *)

\* mutant: the initial `bits <<= 1` is lost
BitmapChar_from_bits_noshift(bits) ==
    LET b1 == bits
        b2 == BitOr(Shr16(b1, 8), Shl16(b1, 8))
        b3 == BitOr(BitAnd(Shr16(b2, 4), 3855), BitAnd(Shl16(b2, 4), 61680))
        b4 == BitOr(BitAnd(Shr16(b3, 2), 13107), BitAnd(Shl16(b3, 2), 52428))
        b5 == BitOr(BitAnd(Shr16(b4, 1), 21845), BitAnd(Shl16(b4, 1), 43690))
    IN  b5

BitmapChar_from_bits(bits) ==
    LET b1 == Shl16(bits, 1)
        b2 == BitOr(Shr16(b1, 8), Shl16(b1, 8))
        b3 == BitOr(BitAnd(Shr16(b2, 4), 3855), BitAnd(Shl16(b2, 4), 61680))
        b4 == BitOr(BitAnd(Shr16(b3, 2), 13107), BitAnd(Shl16(b3, 2), 52428))
        b5 == BitOr(BitAnd(Shr16(b4, 1), 21845), BitAnd(Shl16(b4, 1), 43690))
    IN  b5

peek(self, x, y) ==
    x >= 0 /\ y >= 0 /\ x < 3 /\ y < 5 /\ Bit(self, x + y * 3) = 1

poke(self, x, y, value) ==
    IF x >= 0 /\ y >= 0 /\ x < 3 /\ y < 5
    THEN LET mask == Pow2(x + y * 3)
         IN  IF value THEN BitOr(self, mask)
             ELSE BitAnd(self, 65535 - mask)
    ELSE self

\* the (x, y) of `for x in 0..=2 { for y in 0..=4`, in iteration order
PixelOrder == [k \in 1..15 |-> <<(k - 1) \div 5, (k - 1) % 5>>]

\* the (sx, sy) of `for sx in -1..=1 { for sy in -1..=1` at which
\* ((sx * sx + sy * sy) as f64).sqrt() is sqrt(n)
ShiftsAt(n) ==
    {s \in (-1..1) \X (-1..1) : s[1] * s[1] + s[2] * s[2] = n}
EdgeShifts == ShiftsAt(1)
DiagonalShifts == ShiftsAt(2)

\* pixel_min after the sx/sy loops: the least of 2.0 and the sqrt(n) of the
\* shifts at which `other` has a pixel (f64::min over 0 < 1 < sqrt 2 < 2)
pixel_min(other, x, y) ==
    IF peek(other, x, y) THEN F64SqrtOf(0)
    ELSE IF \E s \in EdgeShifts : peek(other, x + s[1], y + s[2])
         THEN F64Min(F64Two, F64SqrtOf(1))
    ELSE IF \E s \in DiagonalShifts : peek(other, x + s[1], y + s[2])
         THEN F64Min(F64Two, F64SqrtOf(2))
    ELSE F64Two

RECURSIVE similarity_asym_from(_, _, _, _)
similarity_asym_from(self, other, k, acc) ==
    IF k > 15 THEN acc
    ELSE LET x == PixelOrder[k][1]
             y == PixelOrder[k][2]
         IN  similarity_asym_from(self, other, k + 1,
                 IF peek(self, x, y)
                 THEN F64Add(acc, pixel_min(other, x, y))
                 ELSE acc)

similarity_asym(self, other) == similarity_asym_from(self, other, 1, F64Zero)

\* mutant: only the cost of self against other is counted
similarity_oneway(self, other) == similarity_asym(self, other)

similarity(self, other) ==
    F64Add(similarity_asym(self, other), similarity_asym(other, self))

----------------------------------------------------------------------------
(* Strings: UTF-8                                                          *)

\* char::encode_utf8, behind String: FromIterator<char>
encode_utf8(c) ==
    IF c < 128 THEN <<c>>
    ELSE IF c < 2048 THEN <<192 + c \div 64, 128 + (c % 64)>>
    ELSE IF c < 65536
         THEN <<224 + c \div 4096, 128 + ((c \div 64) % 64), 128 + (c % 64)>>
    ELSE <<240 + c \div 262144, 128 + ((c \div 4096) % 64),
           128 + ((c \div 64) % 64), 128 + (c % 64)>>

\* the String collected from chars[lo..hi]
RECURSIVE string_from(_, _, _)
string_from(chars, lo, hi) ==
    IF lo > hi THEN <<>>
    ELSE IF lo = hi THEN encode_utf8(chars[lo])
    ELSE LET mid == (lo + hi) \div 2
         IN  string_from(chars, lo, mid) \o string_from(chars, mid + 1, hi)

\* iter.collect::<String>() over a sequence of chars
collect_string(chars) == string_from(chars, 1, Len(chars))

\* the char whose UTF-8 encoding starts at byte i of s
decode_utf8(s, i) ==
    LET b == s[i]
    IN  IF b < 128 THEN b
        ELSE IF b < 224 THEN (b - 192) * 64 + (s[i + 1] - 128)
        ELSE IF b < 240
             THEN (b - 224) * 4096 + (s[i + 1] - 128) * 64 + (s[i + 2] - 128)
        ELSE (b - 240) * 262144 + (s[i + 1] - 128) * 4096
             + (s[i + 2] - 128) * 64 + (s[i + 3] - 128)

\* the chars that start within bytes lo..hi of s
RECURSIVE chars_from(_, _, _)
chars_from(s, lo, hi) ==
    IF lo > hi THEN <<>>
    ELSE IF lo = hi
         THEN IF s[lo] \div 64 = 2 THEN <<>> ELSE <<decode_utf8(s, lo)>>
    ELSE LET mid == (lo + hi) \div 2
         IN  chars_from(s, lo, mid) \o chars_from(s, mid + 1, hi)

\* str::chars
str_chars(s) == chars_from(s, 1, Len(s))

----------------------------------------------------------------------------
(* BitmapFont                                                              *)

\* number of entries of BitmapFont::data
FontSize == 32768

\* mutant: `sim <= best_sim`, a later entry at the same distance wins
RECURSIVE generate_scan_last(_, _, _, _)
generate_scan_last(cs, target, k, best) ==
    IF k > Len(cs) THEN best
    ELSE LET s == similarity(target, cs[k][2])
         IN  generate_scan_last(cs, target, k + 1,
                 IF ~F64Less(best[1], s) THEN <<s, cs[k][1]>> ELSE best)

\* one iteration of `for (c, actual) in charset.iter()`, best = <<sim, char>>
RECURSIVE generate_scan(_, _, _, _)
generate_scan(cs, target, k, best) ==
    IF k > Len(cs) THEN best
    ELSE LET s == similarity(target, cs[k][2])
         IN  generate_scan(cs, target, k + 1,
                 IF F64Less(s, best[1]) THEN <<s, cs[k][1]>> ELSE best)

\* the value `font.data[index] = best_char` stores; 63 is '?'
generate_entry(cs, index) == generate_scan(cs, index, 1, <<F64Infinity, 63>>)[2]

\* BitmapFont::generate: the table; font.data[index] is element index + 1
generate(cs) == [k \in 1..FontSize |-> generate_entry(cs, k - 1)]

\* BitmapFont::serialize
serialize(fontdata) == collect_string(fontdata)

\* BitmapFont::deserialize: a font, or the panic of the failed assert!
deserialize(s) ==
    IF Len(s) # FontSize
    THEN [kind |-> "panic"]
    ELSE LET cs == str_chars(s)
         IN  [kind |-> "font",
              data |-> [k \in 1..FontSize |->
                           IF k <= Len(cs) THEN cs[k] ELSE 0]]

\* BitmapFont::translate
translate(fontdata, pixels) == fontdata[pixels + 1]

----------------------------------------------------------------------------
(* Canvas                                                                  *)

\* an InputCoord component n stands for the f64 n / Den
Den == 2

\* Option<T>
None == <<>>
Some(v) == <<v>>

\* enum Character
BitmapCell(l) == [tag |-> "Bitmap", v |-> l]
TextCell(c) == [tag |-> "Text", v |-> c]

\* Character::default()
CharacterDefault == BitmapCell(0)

\* Canvas::new(width, scale); `as usize` truncates and saturates at 0
Canvas_new(w, sc) ==
    [data |-> <<>>,
     width |-> (IF w < 0 THEN 0 ELSE TruncDiv(w, 3 * Den)) + 1,
     scale |-> sc,
     footnotes |-> <<>>]

\* mutant: no width check, a column past the width lands in the next row
data_index_wrap(self, index) == Some(index[1] + self.width * index[2])

data_index(self, index) ==
    IF index[1] >= self.width THEN None
    ELSE Some(index[1] + self.width * index[2])

get_character(self, index) ==
    LET i == data_index(self, index)
    IN  IF i # None /\ i[1] < Len(self.data) THEN self.data[i[1] + 1]
        ELSE CharacterDefault

\* Vec::resize(new_len, value) when new_len > len
resize(vec, new_len, value) ==
    vec \o [k \in 1..(new_len - Len(vec)) |-> value]

\* mutant: the buffer grows by whole rows
get_character_mut_whole_rows(self, index) ==
    LET i == data_index(self, index)
    IN  IF i # None
        THEN [self |-> IF i[1] >= Len(self.data)
                       THEN [self EXCEPT
                                !.data = resize(self.data,
                                                (index[2] + 1) * self.width,
                                                CharacterDefault)]
                       ELSE self,
              at |-> i]
        ELSE [self |-> self, at |-> None]

\* get_character_mut: the canvas after the call and the index borrowed
get_character_mut(self, index) ==
    LET i == data_index(self, index)
    IN  IF i # None
        THEN [self |-> IF i[1] >= Len(self.data)
                       THEN [self EXCEPT
                                !.data = resize(self.data, i[1] + 1, CharacterDefault)]
                       ELSE self,
              at |-> i]
        ELSE [self |-> self, at |-> None]

translate_pix_to_char(coord) ==
    IF coord[1] < 0 \/ coord[2] < 0 THEN None
    ELSE Some([cc |-> <<coord[1] \div 3, coord[2] \div 5>>,
               px |-> coord[1] % 3,
               py |-> coord[2] % 5])

\* (coord.x * self.scale.x) as i64: the product is exact, the cast truncates
translate_in_to_pix(self, coord) ==
    <<TruncDiv(coord[1] * self.scale[1], Den * Den),
      TruncDiv(coord[2] * self.scale[2], Den * Den)>>

translate_in_to_char(self, coord) ==
    translate_pix_to_char(translate_in_to_pix(self, coord))

\* mutant: a cell with pixels on keeps its bitmap
set_character_if_blank(self, index, character) ==
    LET r == get_character_mut(self, index)
    IN  IF r.at = None THEN r.self
        ELSE IF r.self.data[r.at[1] + 1] \in {CharacterDefault}
                \/ r.self.data[r.at[1] + 1].tag = "Text"
             THEN [r.self EXCEPT !.data[r.at[1] + 1] = TextCell(character)]
             ELSE r.self

set_character(self, index, character) ==
    LET r == get_character_mut(self, index)
    IN  IF r.at = None THEN r.self
        ELSE [r.self EXCEPT !.data[r.at[1] + 1] = TextCell(character)]

get_pixel(self, coord) ==
    LET t == translate_pix_to_char(coord)
    IN  IF t = None THEN FALSE
        ELSE LET c == get_character(self, t[1].cc)
             IN  c.tag = "Bitmap" /\ peek(c.v, t[1].px, t[1].py)

\* mutant: the pixel is drawn whatever the cell holds, text included
set_pixel_over_text(self, coord, value) ==
    LET t == translate_pix_to_char(coord)
    IN  IF t = None THEN self
        ELSE LET r == get_character_mut(self, t[1].cc)
             IN  IF r.at = None THEN r.self
                 ELSE LET c == r.self.data[r.at[1] + 1]
                          l == IF c.tag = "Bitmap" THEN c.v ELSE 0
                      IN  [r.self EXCEPT !.data[r.at[1] + 1] =
                              BitmapCell(poke(l, t[1].px, t[1].py, value))]

set_pixel(self, coord, value) ==
    LET t == translate_pix_to_char(coord)
    IN  IF t = None THEN self
        ELSE LET r == get_character_mut(self, t[1].cc)
             IN  IF r.at # None /\ r.self.data[r.at[1] + 1].tag = "Bitmap"
                 THEN [r.self EXCEPT !.data[r.at[1] + 1] =
                          BitmapCell(poke(r.self.data[r.at[1] + 1].v,
                                          t[1].px, t[1].py, value))]
                 ELSE r.self

\* char::is_control: the category Cc
is_control(c) == c < 32 \/ (c >= 127 /\ c < 160)

\* mutant: the column advances for every char but '\n', control or not
RECURSIVE string_writes_advance(_, _, _, _)
string_writes_advance(chars, k, top_left, pos) ==
    IF k > Len(chars) THEN <<>>
    ELSE IF chars[k] = 10
         THEN string_writes_advance(chars, k + 1, top_left,
                                    <<top_left[1], pos[2] + 1>>)
    ELSE (IF ~is_control(chars[k]) THEN <<[pos |-> pos, c |-> chars[k]]>>
          ELSE <<>>)
         \o string_writes_advance(chars, k + 1, top_left, <<pos[1] + 1, pos[2]>>)

\* the set_character calls of draw_string's loop over chars[k..], in order
RECURSIVE string_writes(_, _, _, _)
string_writes(chars, k, top_left, pos) ==
    IF k > Len(chars) THEN <<>>
    ELSE IF chars[k] = 10
         THEN string_writes(chars, k + 1, top_left, <<top_left[1], pos[2] + 1>>)
    ELSE IF ~is_control(chars[k])
         THEN <<[pos |-> pos, c |-> chars[k]]>>
              \o string_writes(chars, k + 1, top_left, <<pos[1] + 1, pos[2]>>)
    ELSE string_writes(chars, k + 1, top_left, pos)

\* self.set_character(w.pos, w.c) for the writes w of writes[lo..hi], in order
RECURSIVE set_characters(_, _, _, _)
set_characters(self, writes, lo, hi) ==
    IF lo > hi THEN self
    ELSE IF lo = hi THEN set_character(self, writes[lo].pos, writes[lo].c)
    ELSE CHOOSE r \in {set_characters(mid, writes, (lo + hi) \div 2 + 1, hi) :
                          mid \in {set_characters(self, writes, lo, (lo + hi) \div 2)}} : TRUE

\* mutant: a text that runs past the width is also kept as a footnote
draw_string_footnote(self, coord, str) ==
    LET t == translate_in_to_char(self, coord)
    IN  IF t = None THEN self
        ELSE LET writes == string_writes(str_chars(str), 1, t[1].cc, t[1].cc)
                 after == set_characters(self, writes, 1, Len(writes))
             IN  IF \E k \in 1..Len(writes) : writes[k].pos[1] >= self.width
                 THEN [after EXCEPT !.footnotes = Append(@, str)]
                 ELSE after

draw_string(self, coord, str) ==
    LET t == translate_in_to_char(self, coord)
    IN  IF t = None THEN self
        ELSE LET writes == string_writes(str_chars(str), 1, t[1].cc, t[1].cc)
             IN  set_characters(self, writes, 1, Len(writes))

\* self.set_pixel(p, true) for the pixels p of pixels[lo..hi], in order
RECURSIVE set_pixels_from(_, _, _, _)
set_pixels_from(self, pixels, lo, hi) ==
    IF lo > hi THEN self
    ELSE IF lo = hi THEN set_pixel(self, pixels[lo], TRUE)
    ELSE CHOOSE r \in {set_pixels_from(mid, pixels, (lo + hi) \div 2 + 1, hi) :
                          mid \in {set_pixels_from(self, pixels, lo, (lo + hi) \div 2)}} : TRUE

set_pixels(self, pixels) == set_pixels_from(self, pixels, 1, Len(pixels))

\* the pixels draw_rect sets, in order: a.x..=b.x, then a.y..=b.y
rect_pixels(a, b) ==
    [k \in 1..(IF b[1] >= a[1] THEN 2 * (b[1] - a[1] + 1) ELSE 0) |->
        <<a[1] + (k - 1) \div 2, IF k % 2 = 1 THEN a[2] ELSE b[2]>>]
    \o
    [k \in 1..(IF b[2] >= a[2] THEN 2 * (b[2] - a[2] + 1) ELSE 0) |->
        <<IF k % 2 = 1 THEN a[1] ELSE b[1], a[2] + (k - 1) \div 2>>]

\* mutant: the ranges a.x..b.x and a.y..b.y leave the far corner out
draw_rect_exclusive(self, a, b) ==
    LET pa == translate_in_to_pix(self, a)
        pb == translate_in_to_pix(self, b)
    IN  set_pixels(self, rect_pixels(pa, <<pb[1] - 1, pb[2] - 1>>))

draw_rect(self, a, b) ==
    LET pa == translate_in_to_pix(self, a)
        pb == translate_in_to_pix(self, b)
    IN  set_pixels(self, rect_pixels(pa, pb))

\* line_drawing::Octant::new
Octant_new(start, end) ==
    LET dx0 == end[1] - start[1]
        dy0 == end[2] - start[2]
        dx1 == IF dy0 < 0 THEN -dx0 ELSE dx0
        dy1 == IF dy0 < 0 THEN -dy0 ELSE dy0
        v1  == IF dy0 < 0 THEN 4 ELSE 0
        dx2 == IF dx1 < 0 THEN dy1 ELSE dx1
        dy2 == IF dx1 < 0 THEN -dx1 ELSE dy1
        v2  == IF dx1 < 0 THEN v1 + 2 ELSE v1
    IN  IF dx2 < dy2 THEN v2 + 1 ELSE v2

\* line_drawing::Octant::to
Octant_to(octant, p) ==
    CASE octant = 0 -> <<p[1], p[2]>>
      [] octant = 1 -> <<p[2], p[1]>>
      [] octant = 2 -> <<p[2], -p[1]>>
      [] octant = 3 -> <<-p[1], p[2]>>
      [] octant = 4 -> <<-p[1], -p[2]>>
      [] octant = 5 -> <<-p[2], -p[1]>>
      [] octant = 6 -> <<-p[2], p[1]>>
      [] octant = 7 -> <<p[1], -p[2]>>

\* line_drawing::Octant::from
Octant_from(octant, p) ==
    CASE octant = 0 -> <<p[1], p[2]>>
      [] octant = 1 -> <<p[2], p[1]>>
      [] octant = 2 -> <<-p[2], p[1]>>
      [] octant = 3 -> <<-p[1], p[2]>>
      [] octant = 4 -> <<-p[1], -p[2]>>
      [] octant = 5 -> <<-p[2], -p[1]>>
      [] octant = 6 -> <<p[2], -p[1]>>
      [] octant = 7 -> <<p[1], -p[2]>>

\* line_drawing::Bresenham::next, until it returns None
RECURSIVE Bresenham_next(_, _, _, _, _, _)
Bresenham_next(octant, point, end_x, delta_x, delta_y, error) ==
    IF point[1] <= end_x
    THEN <<Octant_from(octant, point)>>
         \o Bresenham_next(octant,
                <<point[1] + 1, IF error >= 0 THEN point[2] + 1 ELSE point[2]>>,
                end_x, delta_x, delta_y,
                (IF error >= 0 THEN error - delta_x ELSE error) + delta_y)
    ELSE <<>>

\* the points line_drawing::Bresenham::new(start, end) iterates over
Bresenham(start, end) ==
    LET octant == Octant_new(start, end)
        s == Octant_to(octant, start)
        e == Octant_to(octant, end)
    IN  Bresenham_next(octant, s, e[1], e[1] - s[1], e[2] - s[2],
                       (e[2] - s[2]) - (e[1] - s[1]))

\* mutant: the first point of the line is not drawn
draw_line_skip_first(self, a, b) ==
    LET pa == translate_in_to_pix(self, a)
        pb == translate_in_to_pix(self, b)
    IN  set_pixels(self, Tail(Bresenham(pa, pb)))

draw_line(self, a, b) ==
    LET pa == translate_in_to_pix(self, a)
        pb == translate_in_to_pix(self, b)
    IN  set_pixels(self, Bresenham(pa, pb))

\* char::is_whitespace: the code points with the property White_Space
is_whitespace(c) ==
    \/ c \in {9, 10, 11, 12, 13, 32, 133, 160, 5760, 8232, 8233, 8239, 8287, 12288}
    \/ (c >= 8192 /\ c <= 8202)

\* str::trim_end
trim_end(s) ==
    LET cs == str_chars(s)
        kept == {i \in 1..Len(cs) : ~is_whitespace(cs[i])}
    IN  IF kept = {} THEN <<>>
        ELSE collect_string(SubSeq(cs, 1, CHOOSE i \in kept : \A j \in kept : j <= i))

\* writeln!(output, "{}", s): the bytes written
writeln(s) == s \o <<10>>

\* the decimal digits of `index + 1` as "{}" formats them
RECURSIVE to_decimal(_)
to_decimal(n) ==
    IF n < 10 THEN <<48 + n>>
    ELSE to_decimal(n \div 10) \o <<48 + (n % 10)>>

\* the char one cell pushes on render's line
render_char(cell, fontdata) ==
    IF cell.tag = "Text" THEN cell.v ELSE translate(fontdata, cell.v)

\* the passes of render's `while !done` from data index pos on: a pass
\* pushes up to width chars, sets done when `it` runs out, and writes a line
RECURSIVE render_rows(_, _, _)
render_rows(self, fontdata, pos) ==
    LET n == IF Len(self.data) - pos < self.width THEN Len(self.data) - pos
             ELSE self.width
        line == collect_string([k \in 1..n |->
                                   render_char(self.data[pos + k], fontdata)])
        done == n < self.width
    IN  <<writeln(trim_end(line))>>
        \o (IF done THEN <<>> ELSE render_rows(self, fontdata, pos + self.width))

\* the lines render writes when self.footnotes is not empty
render_footnotes(self) ==
    IF self.footnotes # <<>>
    THEN <<writeln(<<>>)>>
         \o [index \in 1..Len(self.footnotes) |->
                writeln(<<91>> \o to_decimal(index) \o <<93, 58, 32>>
                        \o self.footnotes[index])]
    ELSE <<>>

\* Canvas::render: the lines written to output, each with its newline
render(self, fontdata) ==
    render_rows(self, fontdata, 0) \o render_footnotes(self)

\* mutant: the text character shows only where the upper pixel row of the
\* line is the middle row of its cell
debug_char_upper_only(self, x, y) ==
    LET upper == <<x, y * 2>>
        lower == <<x, y * 2 + 1>>
        t == translate_pix_to_char(upper)
    IN  IF /\ x % 3 = 1 /\ upper[2] % 5 = 2
           /\ t # None /\ get_character(self, t[1].cc).tag = "Text"
        THEN get_character(self, t[1].cc).v
        ELSE CASE get_pixel(self, upper) /\ get_pixel(self, lower) -> 9608
               [] get_pixel(self, upper) /\ ~get_pixel(self, lower) -> 9600
               [] ~get_pixel(self, upper) /\ get_pixel(self, lower) -> 9604
               [] OTHER -> 32

\* the char debug_render pushes for column x of line y
debug_char(self, x, y) ==
    LET upper == <<x, y * 2>>
        lower == <<x, y * 2 + 1>>
        t == translate_pix_to_char(upper)
    IN  IF /\ x % 3 = 1 /\ (upper[2] % 5 = 2 \/ lower[2] % 5 = 2)
           /\ t # None /\ get_character(self, t[1].cc).tag = "Text"
        THEN get_character(self, t[1].cc).v
        ELSE CASE get_pixel(self, upper) /\ get_pixel(self, lower) -> 9608
               [] get_pixel(self, upper) /\ ~get_pixel(self, lower) -> 9600
               [] ~get_pixel(self, upper) /\ get_pixel(self, lower) -> 9604
               [] OTHER -> 32

\* the String `line` of debug_render before trim_end, for line y
debug_line(self, y) ==
    collect_string([x \in 1..(self.width * 3) |-> debug_char(self, x - 1, y)])

\* mutant: the height rounds down, half a character row short
debug_render_short(self) ==
    LET in_height == (Len(self.data) + self.width - 1) \div self.width
        out_height == (in_height * 5) \div 2
    IN  [y \in 1..out_height |-> writeln(trim_end(debug_line(self, y - 1)))]

\* Canvas::debug_render: the lines written to output, each with its newline
debug_render(self) ==
    LET in_width == self.width
        in_height == (Len(self.data) + in_width - 1) \div in_width
        out_height == in_height * 2 + (in_height + 1) \div 2
    IN  [y \in 1..out_height |-> writeln(trim_end(debug_line(self, y - 1)))]

----------------------------------------------------------------------------
(* Values of the variables a specification does not use                    *)

CanvasIdle ==
    /\ data = <<>> /\ width = 0 /\ scale = <<0, 0>> /\ footnotes = <<>>
    /\ prev = <<>> /\ last = [op |-> "none"] /\ written = <<>> /\ ncalls = 0
    /\ made = <<>> /\ alt = <<>> /\ output = <<>> /\ rpc = "idle"

FontIdle ==
    /\ charset = <<>> /\ font = <<>> /\ text = <<>>
    /\ loaded = [kind |-> "none"] /\ fpc = "idle" /\ gidx = 0 /\ gchar = 0

BitmapIdle ==
    /\ lit = 0 /\ ba = 0 /\ bb = 0 /\ sim = F64Zero /\ npokes = 0
    /\ bpc = "idle"

CoordIdle ==
    /\ cin = <<0, 0>> /\ cpix = <<0, 0>> /\ cchr = <<>> /\ cpc = "idle"

----------------------------------------------------------------------------
(* The font pipeline: font-gen writes generate(..).serialize() to font.txt *)
(* and BitmapFont::default deserializes that text                          *)

\* reference sets: none, an ASCII '_' drawn as the bottom pixel row, and a
\* non-ASCII U+00B7 (middle dot) drawn as one pixel of the fourth row
FontCharsets ==
    { <<>>,
      << <<95, BitmapChar_from_bits(7)>> >>,
      << <<183, BitmapChar_from_bits(16)>> >> }

\* longest of the short texts handed to deserialize
MaxShortText == 5

\* n chars, all `fill` but for `special` at position pos (pos = 0: nowhere)
TextChars(n, fill, special, pos) ==
    [i \in 1..n |-> IF i = pos THEN special ELSE fill]

\* texts of about FontSize chars: ASCII, or with one 2-, 3- or 4-byte char
LongTexts(fill) ==
    { collect_string(TextChars(FontSize + t[1], fill, t[2], t[3])) :
        t \in { <<-1, 0, 0>>, <<0, 0, 0>>, <<1, 0, 0>>,
                <<-1, 233, 1>>, <<0, 233, FontSize>>,
                <<-2, 9608, 1>>, <<-3, 128578, 7>>, <<0, 128578, 1>> } }

\* all texts of at most MaxShortText chars over ' ' and U+00E9
RECURSIVE ShortCharSeqs(_)
ShortCharSeqs(n) ==
    IF n = 0 THEN {<<>>}
    ELSE LET shorter == ShortCharSeqs(n - 1)
         IN  shorter \cup {Append(cs, c) : cs \in shorter, c \in {32, 233}}

FontTexts(fill) ==
    LongTexts(fill) \cup {collect_string(cs) : cs \in ShortCharSeqs(MaxShortText)}

InitFont ==
    /\ CanvasIdle /\ BitmapIdle /\ CoordIdle
    /\ font = <<>> /\ loaded = [kind |-> "none"] /\ gidx = 0 /\ gchar = 0
    /\ \/ charset \in FontCharsets /\ text = <<>> /\ fpc = "charset"
       \/ charset = <<>> /\ text \in FontTexts(32) /\ fpc = "text"

\* font-gen's main: generate the font and write its serialization out
FontGen ==
    /\ fpc = "charset"
    /\ font' = generate(charset)
    /\ text' = serialize(font')
    /\ fpc' = "serialized"
    /\ UNCHANGED <<charset, loaded, gidx, gchar>>
    /\ UNCHANGED <<canvasVars, bitmapVars, coordVars>>

\* BitmapFont::deserialize of the serialized font, or of a supplied text
Deserialize ==
    /\ fpc \in {"serialized", "text"}
    /\ loaded' = deserialize(text)
    /\ fpc' = IF fpc = "serialized" THEN "reloaded" ELSE "loaded"
    /\ UNCHANGED <<charset, font, text, gidx, gchar>>
    /\ UNCHANGED <<canvasVars, bitmapVars, coordVars>>

NextFont == FontGen \/ Deserialize

SpecFont == InitFont /\ [][NextFont]_vars

\* C2: the deserialized serialization of a generated font translates every
\* one of the 32768 bit patterns to the same character as the generated font
C2_RoundTrip ==
    fpc = "reloaded" =>
        /\ loaded.kind = "font"
        /\ \A p \in 0..(FontSize - 1) :
               translate(loaded.data, p) = translate(font, p)

\* C3: deserialize accepts a text exactly when it holds 32768 characters,
\* answers any other text with an error and not a panic, and entry i of an
\* accepted text's table is its i-th character
C3_DeserializeContract ==
    fpc \in {"loaded", "reloaded"} =>
        LET cs == str_chars(text)
        IN  /\ (loaded.kind = "font") <=> (Len(cs) = FontSize)
            /\ loaded.kind # "font" => loaded.kind = "error"
            /\ loaded.kind = "font" =>
                   \A i \in 0..(FontSize - 1) :
                       i < Len(cs) /\ translate(loaded.data, i) = cs[i + 1]

----------------------------------------------------------------------------
(* One iteration of the outer loop of BitmapFont::generate                 *)

\* reference sets in the manner of font-gen's: the two-glyph set ' ' and
\* '|'; three glyphs of the top rows, two of them with the same bitmap;
\* three horizontal bars
GlyphCharsets ==
    { << <<32, BitmapChar_from_bits(0)>>, <<124, BitmapChar_from_bits(9362)>> >>,
      << <<39, BitmapChar_from_bits(9216)>>, <<34, BitmapChar_from_bits(9216)>>,
         <<96, BitmapChar_from_bits(17408)>> >>,
      << <<45, BitmapChar_from_bits(448)>>, <<95, BitmapChar_from_bits(7)>>,
         <<46, BitmapChar_from_bits(56)>> >> }

\* the bit patterns 0..MaxIndex are tried, and every reference bitmap
MaxIndex == 4095

GlyphIndexes(cs) == (0..MaxIndex) \cup {cs[k][2] : k \in 1..Len(cs)}

InitGlyph ==
    /\ CanvasIdle /\ BitmapIdle /\ CoordIdle
    /\ font = <<>> /\ text = <<>> /\ loaded = [kind |-> "none"]
    /\ charset \in GlyphCharsets
    /\ gidx \in GlyphIndexes(charset)
    /\ gchar = 0
    /\ fpc = "index"

\* the iteration for `index`: font.data[index as usize] = best_char
GenerateStep ==
    /\ fpc = "index"
    /\ gchar' = generate_entry(charset, gidx)
    /\ fpc' = "stored"
    /\ UNCHANGED <<charset, font, text, loaded, gidx>>
    /\ UNCHANGED <<canvasVars, bitmapVars, coordVars>>

NextGlyph == GenerateStep

SpecGlyph == InitGlyph /\ [][NextGlyph]_vars

\* the symmetric distances of pattern p to the entries of cs
Distances(cs, p) == [j \in 1..Len(cs) |-> similarity(p, cs[j][2])]

\* the lowest index whose distance no other distance is below
FirstMinimal(d) ==
    CHOOSE i \in DOMAIN d :
        /\ \A j \in DOMAIN d : ~F64Less(d[j], d[i])
        /\ \A j \in 1..(i - 1) : F64Less(d[i], d[j])

\* C4: generate stores at entry p the character of the lowest-index
\* reference entry at minimal symmetric distance to p; when p is the bitmap
\* of a reference entry, that is the first entry with that bitmap, at
\* distance 0
C4_FirstMinimum ==
    fpc = "stored" =>
        \A d \in {Distances(charset, gidx)} :
            LET same == {i \in DOMAIN d : charset[i][2] = gidx}
            IN  /\ gchar = charset[FirstMinimal(d)][1]
                /\ same # {} =>
                       LET first == CHOOSE i \in same : \A j \in same : i <= j
                       IN  d[first] = F64Zero /\ gchar = charset[first][1]

\* a pattern that is the bitmap of two entries with different characters
\* got the character of the first of them
C4_Witness ==
    /\ fpc = "stored"
    /\ Len(charset) >= 2
    /\ charset[1][2] = gidx /\ charset[2][2] = gidx
    /\ charset[1][1] # charset[2][1]
    /\ gchar = charset[1][1]

----------------------------------------------------------------------------
(* The similarity of two bitmaps                                           *)

\* bitmaps of font-gen's reference set
SimBitmaps ==
    { BitmapChar_from_bits(l) : l \in {0, 7, 448, 9362, 4681, 11962, 13459,
                                       5284, 1488, 23421, 32767} }

\* number of pixels poked into the second bitmap
MaxPokes == 3

InitSim ==
    /\ CanvasIdle /\ FontIdle /\ CoordIdle
    /\ lit = 0
    /\ ba \in SimBitmaps
    /\ bb = ba
    /\ sim = F64Zero
    /\ npokes = 0
    /\ bpc = "edit"

\* bb.poke(x, y, value), out-of-range coordinates included
Poke(x, y, value) ==
    /\ bpc = "edit"
    /\ npokes < MaxPokes
    /\ bb' = poke(bb, x, y, value)
    /\ npokes' = npokes + 1
    /\ UNCHANGED <<lit, ba, sim, bpc>>
    /\ UNCHANGED <<canvasVars, fontVars, coordVars>>

\* ba.similarity(bb)
Similarity ==
    /\ bpc = "edit"
    /\ sim' = similarity(ba, bb)
    /\ bpc' = "scored"
    /\ UNCHANGED <<lit, ba, bb, npokes>>
    /\ UNCHANGED <<canvasVars, fontVars, coordVars>>

NextSim ==
    \/ \E x \in -1..3, y \in -1..5, value \in BOOLEAN : Poke(x, y, value)
    \/ Similarity

SpecSim == InitSim /\ [][NextSim]_vars

\* the two bitmaps have the same pixels set
SamePixels(a, b) == \A x \in 0..2, y \in 0..4 : peek(a, x, y) = peek(b, x, y)

\* C5: the similarity of two 3x5 bitmaps is 0 exactly when they have the
\* same pixels set, and strictly positive otherwise
C5_ZeroIffEqual ==
    bpc = "scored" =>
        /\ (sim = F64Zero) <=> SamePixels(ba, bb)
        /\ ~SamePixels(ba, bb) => F64Less(F64Zero, sim)

\* a bitmap scored against one that has all its pixels and more
C5_Witness ==
    /\ bpc = "scored"
    /\ ~SamePixels(ba, bb)
    /\ \A x \in 0..2, y \in 0..4 : peek(ba, x, y) => peek(bb, x, y)
    /\ F64Less(F64Zero, sim)

----------------------------------------------------------------------------
(* BitmapChar::from_bits                                                   *)

InitBits ==
    /\ CanvasIdle /\ FontIdle /\ CoordIdle
    /\ lit \in 0..(Pow2(15) - 1)
    /\ ba = 0 /\ bb = 0 /\ sim = F64Zero /\ npokes = 0
    /\ bpc = "literal"

\* BitmapChar::from_bits(lit)
FromBits ==
    /\ bpc = "literal"
    /\ ba' = BitmapChar_from_bits(lit)
    /\ bpc' = "converted"
    /\ UNCHANGED <<lit, bb, sim, npokes>>
    /\ UNCHANGED <<canvasVars, fontVars, coordVars>>

NextBits == FromBits

SpecBits == InitBits /\ [][NextBits]_vars

\* C6: pixel (x, y) of from_bits(b) is bit 14 - (x + 3 * y) of the 15-bit
\* literal b, and bit 15 of the result is clear
C6_FromBitsLayout ==
    bpc = "converted" =>
        /\ \A x \in 0..2, y \in 0..4 :
               peek(ba, x, y) <=> (Bit(lit, 14 - (x + 3 * y)) = 1)
        /\ Bit(ba, 15) = 0

\* the '[' of the doc comment: 0b011_010_010_010_011
C6_Witness ==
    /\ bpc = "converted"
    /\ lit = 13459
    /\ ~peek(ba, 0, 0) /\ peek(ba, 1, 0) /\ peek(ba, 2, 0)
    /\ peek(ba, 1, 2) /\ ~peek(ba, 2, 2)
    /\ peek(ba, 1, 4) /\ peek(ba, 2, 4)

----------------------------------------------------------------------------
(* The canvas under drawing calls                                          *)

\* the canvas the state holds, and the one it held before the last call
Self == [data |-> data, width |-> width, scale |-> scale,
         footnotes |-> footnotes]
Before == [Self EXCEPT !.data = prev]

\* number of drawing calls made on a canvas
MaxCalls == 3

\* Canvas::new(5.0, ..): two columns; scales (1, 1) and (0.5, 1.5)
CanvasWidths == {10}
CanvasScales == {<<2, 2>>, <<1, 3>>}

\* corner pairs of draw_rect: partly negative, in range, reversed in both
\* axes, reversed in y only, past the width, a single pixel
RectArgs ==
    { <<<<-3, -3>>, <<5, 9>>>>, <<<<1, 2>>, <<8, 13>>>>,
      <<<<5, 9>>, <<1, 2>>>>, <<<<1, 9>>, <<5, 2>>>>,
      <<<<2, 2>>, <<13, 4>>>>, <<<<5, 9>>, <<5, 9>>>> }

\* end points of draw_line: single points (negative, in range, past the
\* width), diagonals in both directions, a line leaving the canvas
LineArgs ==
    { <<<<-3, -3>>, <<-3, -3>>>>, <<<<1, 2>>, <<1, 2>>>>,
      <<<<8, 13>>, <<8, 13>>>>, <<<<13, 4>>, <<13, 4>>>>,
      <<<<1, 2>>, <<8, 13>>>>, <<<<8, 13>>, <<1, 2>>>>,
      <<<<-3, 4>>, <<13, 1>>>>, <<<<5, 0>>, <<4, 21>>>> }

\* origins and texts of draw_string: "a", "a\nb", "x\u{7}y", "abc"
StringOrigins == {<<1, 2>>, <<5, 9>>, <<8, 13>>, <<-3, 0>>}
StringTexts ==
    { collect_string(cs) :
        cs \in {<<97>>, <<97, 10, 98>>, <<120, 7, 121>>, <<97, 98, 99>>} }

\* the cells a draw_string call writes, as cell index -> character; a later
\* write to a cell replaces an earlier one
RECURSIVE LastWrites(_, _, _)
LastWrites(writes, k, acc) ==
    IF k > Len(writes) THEN acc
    ELSE LET w == writes[k]
             i == w.pos[1] + width * w.pos[2]
         IN  LastWrites(writes, k + 1,
                 IF w.pos[1] >= width THEN acc
                 ELSE [j \in DOMAIN acc \cup {i} |->
                          IF j = i THEN w.c ELSE acc[j]])

StringCells(coord, str) ==
    LET t == translate_in_to_char(Self, coord)
    IN  IF t = None THEN <<>>
        ELSE string_writes(str_chars(str), 1, t[1].cc, t[1].cc)

Init ==
    /\ FontIdle /\ BitmapIdle /\ CoordIdle
    /\ \E w \in CanvasWidths, sc \in CanvasScales :
           LET c == Canvas_new(w, sc)
           IN  /\ data = c.data
               /\ width = c.width
               /\ scale = c.scale
               /\ footnotes = c.footnotes
               /\ made = c
    /\ prev = <<>>
    /\ last = [op |-> "new", a |-> <<0, 0>>, b |-> <<0, 0>>, text |-> <<>>]
    /\ written = <<>>
    /\ ncalls = 0
    /\ alt = <<>> /\ output = <<>> /\ rpc = "idle"

DrawString(coord, str) ==
    /\ ncalls < MaxCalls
    /\ \E after \in {draw_string(Self, coord, str)} :
           /\ data' = after.data
           /\ width' = after.width
           /\ scale' = after.scale
           /\ footnotes' = after.footnotes
    /\ prev' = data
    /\ last' = [op |-> "string", a |-> coord, b |-> coord, text |-> str]
    /\ written' = LastWrites(StringCells(coord, str), 1, written)
    /\ ncalls' = ncalls + 1
    /\ UNCHANGED <<made, alt, output, rpc>>
    /\ UNCHANGED <<fontVars, bitmapVars, coordVars>>

DrawRect(a, b) ==
    /\ ncalls < MaxCalls
    /\ \E after \in {draw_rect(Self, a, b)} :
           /\ data' = after.data
           /\ width' = after.width
           /\ scale' = after.scale
           /\ footnotes' = after.footnotes
    /\ prev' = data
    /\ last' = [op |-> "rect", a |-> a, b |-> b, text |-> <<>>]
    /\ ncalls' = ncalls + 1
    /\ UNCHANGED <<written, made, alt, output, rpc>>
    /\ UNCHANGED <<fontVars, bitmapVars, coordVars>>

DrawLine(a, b) ==
    /\ ncalls < MaxCalls
    /\ \E after \in {draw_line(Self, a, b)} :
           /\ data' = after.data
           /\ width' = after.width
           /\ scale' = after.scale
           /\ footnotes' = after.footnotes
    /\ prev' = data
    /\ last' = [op |-> "line", a |-> a, b |-> b, text |-> <<>>]
    /\ ncalls' = ncalls + 1
    /\ UNCHANGED <<written, made, alt, output, rpc>>
    /\ UNCHANGED <<fontVars, bitmapVars, coordVars>>

Next ==
    \/ \E coord \in StringOrigins, str \in StringTexts : DrawString(coord, str)
    \/ \E r \in RectArgs : DrawRect(r[1], r[2])
    \/ \E l \in LineArgs : DrawLine(l[1], l[2])

Spec == Init /\ [][Next]_vars

\* the pixel coordinates of the canvas and a margin around it
Rows(d) == (Len(d) + width - 1) \div width
Window == (-2..(3 * width + 2)) \X (-2..(5 * Rows(data) + 6))

\* the pixels of cell index i
CellPixels(i) ==
    {<<3 * (i % width) + px, 5 * (i \div width) + py>> : px \in 0..2, py \in 0..4}

\* C1: every cell a draw_string call wrote holds the character of the most
\* recent text write to it whatever was drawn before or after, no text cell
\* of before the last call is a bitmap after it, and every pixel of a
\* written cell reads false
C1_TextPersists ==
    /\ \A i \in DOMAIN written :
           /\ i < Len(data)
           /\ data[i + 1] = TextCell(written[i])
           /\ \A p \in CellPixels(i) : ~get_pixel(Self, p)
    /\ \A k \in 1..Len(prev) : prev[k].tag = "Text" => data[k].tag = "Text"

\* the pixel coordinates the last call passed to set_pixel, in order
PixelWrites ==
    LET pa == translate_in_to_pix(Before, last.a)
        pb == translate_in_to_pix(Before, last.b)
    IN  IF last.op = "rect" THEN rect_pixels(pa, pb)
        ELSE IF last.op = "line" THEN Bresenham(pa, pb)
        ELSE <<>>

\* the set_character calls of the last call, in order
TextWrites ==
    IF last.op = "string" THEN
        LET t == translate_in_to_char(Before, last.a)
        IN  IF t = None THEN <<>>
            ELSE string_writes(str_chars(last.text), 1, t[1].cc, t[1].cc)
    ELSE <<>>

\* a rectangle or line was drawn through a cell that holds text and set
\* pixels elsewhere
C1_Witness ==
    /\ last.op \in {"rect", "line"}
    /\ data # prev
    /\ \E i \in DOMAIN written, k \in 1..Len(PixelWrites) :
           PixelWrites[k] \in CellPixels(i)

----------------------------------------------------------------------------
(* Out-of-range writes                                                     *)

OutOfRangePixel(p) == p[1] < 0 \/ p[2] < 0 \/ p[1] \div 3 >= width
InRangePixel(p) == ~OutOfRangePixel(p)
OutOfRangeWrite(w) == w.pos[1] >= width
InRangeWrite(w) == ~OutOfRangeWrite(w)

\* C8: a pixel write at a negative coordinate and a pixel or text write at
\* a column past the width leave the canvas as it is, before and after the
\* call, and the call's result is that of its in-range writes alone
C8_OutOfRangeIgnored ==
    /\ \A k \in 1..Len(PixelWrites) :
           OutOfRangePixel(PixelWrites[k]) =>
               /\ set_pixel(Before, PixelWrites[k], TRUE) = Before
               /\ set_pixel(Self, PixelWrites[k], TRUE) = Self
    /\ \A k \in 1..Len(TextWrites) :
           OutOfRangeWrite(TextWrites[k]) =>
               /\ set_character(Before, TextWrites[k].pos, TextWrites[k].c) = Before
               /\ set_character(Self, TextWrites[k].pos, TextWrites[k].c) = Self
    /\ last.op \in {"rect", "line"} =>
           Self = set_pixels(Before, SelectSeq(PixelWrites, InRangePixel))
    /\ last.op = "string" =>
           \A ws \in {SelectSeq(TextWrites, InRangeWrite)} :
               Self = set_characters(Before, ws, 1, Len(ws))

\* a rectangle or line with pixels at negative coordinates, pixels past the
\* width and pixels in range, the last of which changed the canvas
C8_Witness ==
    /\ last.op \in {"rect", "line"}
    /\ \E k \in 1..Len(PixelWrites) :
           PixelWrites[k][1] < 0 \/ PixelWrites[k][2] < 0
    /\ \E k \in 1..Len(PixelWrites) :
           PixelWrites[k][1] >= 0 /\ PixelWrites[k][2] >= 0
           /\ PixelWrites[k][1] \div 3 >= width
    /\ \E k \in 1..Len(PixelWrites) : InRangePixel(PixelWrites[k])
    /\ data # prev

----------------------------------------------------------------------------
(* draw_rect and draw_line                                                 *)

\* the pixel is in a cell of the canvas that held a bitmap before the call
Addressable(p) ==
    /\ InRangePixel(p)
    /\ get_character(Before, <<p[1] \div 3, p[2] \div 5>>).tag = "Bitmap"

\* the border of the box with pixel corners A and B
RectSet(A, B) ==
    {<<x, A[2]>> : x \in A[1]..B[1]} \cup {<<x, B[2]>> : x \in A[1]..B[1]}
    \cup {<<A[1], y>> : y \in A[2]..B[2]} \cup {<<B[1], y>> : y \in A[2]..B[2]}

\* C9: after draw_rect a pixel is on iff it was on or it is a border pixel
\* in an addressable bitmap cell, text cells are as they were, and a box
\* reversed in both axes leaves the canvas unchanged
C9_RectBorder ==
    last.op = "rect" =>
        \A A \in {translate_in_to_pix(Before, last.a)},
           B \in {translate_in_to_pix(Before, last.b)} :
            /\ \A p \in Window :
                   get_pixel(Self, p) =
                       (get_pixel(Before, p)
                        \/ (p \in RectSet(A, B) /\ Addressable(p)))
            /\ \A k \in 1..Len(prev) :
                   prev[k].tag = "Text" => data[k] = prev[k]
            /\ (A[1] > B[1] /\ A[2] > B[2]) => data = prev

\* a box of more than one pixel was drawn and both its corners came on
C9_Witness ==
    /\ last.op = "rect"
    /\ \E A \in {translate_in_to_pix(Before, last.a)},
          B \in {translate_in_to_pix(Before, last.b)} :
           /\ A[1] < B[1] /\ A[2] < B[2]
           /\ ~get_pixel(Before, A) /\ ~get_pixel(Before, B)
           /\ get_pixel(Self, A) /\ get_pixel(Self, B)

\* C10: draw_line(a, a) with a's pixel in an addressable bitmap cell turns
\* that pixel on and leaves every other pixel as it was
C10_DegenerateLine ==
    (last.op = "line" /\ last.a = last.b) =>
        \A A \in {translate_in_to_pix(Before, last.a)} :
            Addressable(A) =>
                /\ get_pixel(Self, A)
                /\ \A p \in Window \ {A} :
                       get_pixel(Self, p) = get_pixel(Before, p)
                /\ \A k \in 1..Len(prev) :
                       prev[k].tag = "Text" => data[k] = prev[k]

\* a one-point line turned on a pixel that was off
C10_Witness ==
    /\ last.op = "line" /\ last.a = last.b
    /\ Addressable(translate_in_to_pix(Before, last.a))
    /\ ~get_pixel(Before, translate_in_to_pix(Before, last.a))
    /\ get_pixel(Self, translate_in_to_pix(Before, last.a))

----------------------------------------------------------------------------
(* Coordinate translation                                                  *)

\* input coordinates range over -MaxCoord / Den .. MaxCoord / Den
MaxCoord == 8

\* scales (1, 1), (0.5, 1.5) and (2.5, 3)
CoordScales == {<<2, 2>>, <<1, 3>>, <<5, 6>>}

InitCoord ==
    /\ FontIdle /\ BitmapIdle
    /\ \E w \in CanvasWidths, sc \in CoordScales :
           LET c == Canvas_new(w, sc)
           IN  /\ data = c.data
               /\ width = c.width
               /\ scale = c.scale
               /\ footnotes = c.footnotes
               /\ made = c
    /\ prev = <<>> /\ last = [op |-> "none"] /\ written = <<>> /\ ncalls = 0
    /\ alt = <<>> /\ output = <<>> /\ rpc = "idle"
    /\ cin \in (-MaxCoord..MaxCoord) \X (-MaxCoord..MaxCoord)
    /\ cpix = <<0, 0>> /\ cchr = None /\ cpc = "input"

TranslateCoord ==
    /\ cpc = "input"
    /\ cpix' = translate_in_to_pix(Self, cin)
    /\ cchr' = translate_in_to_char(Self, cin)
    /\ cpc' = "translated"
    /\ UNCHANGED <<cin, canvasVars, fontVars, bitmapVars>>

NextCoord == TranslateCoord

SpecCoord == InitCoord /\ [][NextCoord]_vars

\* C7: an input coordinate (x, y) maps to pixel column floor(x * scale.x)
\* and row floor(y * scale.y), and to character column
\* floor(x * scale.x / 3) and row floor(y * scale.y / 5); \div rounds down
C7_FloorMapping ==
    cpc = "translated" =>
        /\ cpix = <<(cin[1] * scale[1]) \div (Den * Den),
                    (cin[2] * scale[2]) \div (Den * Den)>>
        /\ cchr # None
        /\ cchr[1].cc = <<(cin[1] * scale[1]) \div (3 * Den * Den),
                          (cin[2] * scale[2]) \div (5 * Den * Den)>>

----------------------------------------------------------------------------
(* draw_string on its own                                                  *)

\* longest text handed to draw_string
MaxTextLen == 4

\* all texts of at most n chars over 'a', 'b', '\n' and the bell character
RECURSIVE TextsUpTo(_)
TextsUpTo(n) ==
    IF n = 0 THEN {<<>>}
    ELSE LET shorter == TextsUpTo(n - 1)
         IN  shorter \cup {Append(cs, c) : cs \in shorter, c \in {97, 98, 10, 7}}

\* origins at a cell's corner, inside a cell, near the width, negative
LayoutOrigins == {<<0, 0>>, <<1, 2>>, <<5, 9>>, <<8, 13>>, <<-3, 0>>}

\* a new canvas, or one a rectangle was drawn on
InitString ==
    /\ FontIdle /\ BitmapIdle /\ CoordIdle
    /\ \E w \in CanvasWidths, sc \in CanvasScales :
       \E c \in {Canvas_new(w, sc), draw_rect(Canvas_new(w, sc), <<1, 2>>, <<8, 13>>)} :
           /\ made = Canvas_new(w, sc)
           /\ data = c.data
           /\ width = c.width
           /\ scale = c.scale
           /\ footnotes = c.footnotes
           /\ prev = c.data
    /\ last = [op |-> "new", a |-> <<0, 0>>, b |-> <<0, 0>>, text |-> <<>>]
    /\ written = <<>>
    /\ ncalls = 0
    /\ alt = <<>> /\ output = <<>> /\ rpc = "idle"

NextString ==
    \E coord \in LayoutOrigins, cs \in TextsUpTo(MaxTextLen) :
        last.op = "new" /\ DrawString(coord, collect_string(cs))

SpecString == InitString /\ [][NextString]_vars

\* the number of newlines before char i of chars
LineOf(chars, i) == Cardinality({m \in 1..(i - 1) : chars[m] = 10})

\* the number of non-control chars between the last newline before char i
\* and char i
ColumnOf(chars, i) ==
    Cardinality({m \in 1..(i - 1) :
                    /\ ~is_control(chars[m])
                    /\ \A n \in m..(i - 1) : chars[n] # 10})

\* C11: after draw_string at an origin inside cell (x0, y0), the k-th
\* non-control character of the j-th line of the text is in cell
\* (x0 + k, y0 + j) when that column is within the width, and every other
\* cell is as it was
C11_StringLayout ==
    (last.op = "string" /\ last.a[1] >= 0 /\ last.a[2] >= 0) =>
        \A chars \in {str_chars(last.text)},
           x0 \in {(last.a[1] * scale[1]) \div (3 * Den * Den)},
           y0 \in {(last.a[2] * scale[2]) \div (5 * Den * Den)} :
            LET Printable == {i \in 1..Len(chars) : ~is_control(chars[i])}
                Target(i) == <<x0 + ColumnOf(chars, i), y0 + LineOf(chars, i)>>
                Targets == {Target(i)[1] + width * Target(i)[2] :
                               i \in {m \in Printable : Target(m)[1] < width}}
            IN  /\ \A i \in Printable :
                       Target(i)[1] < width =>
                           get_character(Self, Target(i)) = TextCell(chars[i])
                /\ Len(data) >= Len(prev)
                /\ \A n \in (0..(Len(data) - 1)) \ Targets :
                       data[n + 1] = IF n < Len(prev) THEN prev[n + 1]
                                     ELSE CharacterDefault

\* "\u{7}a\nb" was drawn from pixel (2, 4) of cell (0, 0): the control
\* character took no cell and the newline returned to the origin's column
C11_Witness ==
    /\ last.op = "string"
    /\ str_chars(last.text) = <<7, 97, 10, 98>>
    /\ last.a = <<5, 9>>
    /\ scale = <<2, 2>>
    /\ get_character(Self, <<0, 0>>) = TextCell(97)
    /\ get_character(Self, <<0, 1>>) = TextCell(98)
    /\ get_character(Self, <<1, 0>>).tag = "Bitmap"

----------------------------------------------------------------------------
(* Rendering a canvas after drawing on it                                  *)

\* number of drawing calls made before a canvas is rendered
MaxRenderCalls == 2

\* the reference set of the font render is given: ' ', '|', '_' and '#'
\* with their bitmaps of font-gen's table
RenderCharset ==
    << <<32, BitmapChar_from_bits(0)>>, <<124, BitmapChar_from_bits(9362)>>,
       <<95, BitmapChar_from_bits(7)>>, <<35, BitmapChar_from_bits(24445)>> >>

\* origins and texts of draw_string: "a b ", "a\nb", "ab"
RenderOrigins == {<<1, 2>>, <<8, 13>>}
RenderTexts ==
    { collect_string(cs) :
        cs \in {<<97, 32, 98, 32>>, <<97, 10, 98>>, <<97, 98>>} }

InitRender ==
    /\ FontIdle /\ BitmapIdle /\ CoordIdle
    /\ \E w \in CanvasWidths, sc \in CanvasScales :
           LET c == Canvas_new(w, sc)
           IN  /\ data = c.data
               /\ width = c.width
               /\ scale = c.scale
               /\ footnotes = c.footnotes
               /\ made = c
    /\ prev = <<>>
    /\ last = [op |-> "new", a |-> <<0, 0>>, b |-> <<0, 0>>, text |-> <<>>]
    /\ written = <<>>
    /\ ncalls = 0
    /\ alt = <<>> /\ output = <<>> /\ rpc = "drawing"

\* a drawing call on a canvas not yet rendered
DrawBeforeRender ==
    /\ rpc = "drawing"
    /\ ncalls < MaxRenderCalls
    /\ \/ \E coord \in RenderOrigins, str \in RenderTexts : DrawString(coord, str)
       \/ \E r \in RectArgs : DrawRect(r[1], r[2])
       \/ \E l \in LineArgs : DrawLine(l[1], l[2])

\* Display::fmt without the alternate flag: render with a font
Render ==
    /\ rpc = "drawing"
    /\ output' = render(Self, generate(RenderCharset))
    /\ rpc' = "render"
    /\ UNCHANGED <<data, width, scale, footnotes, prev, last, written, ncalls,
                   made, alt>>
    /\ UNCHANGED <<fontVars, bitmapVars, coordVars>>

\* Display::fmt with the alternate flag: debug_render
DebugRender ==
    /\ rpc = "drawing"
    /\ output' = debug_render(Self)
    /\ rpc' = "debug"
    /\ UNCHANGED <<data, width, scale, footnotes, prev, last, written, ncalls,
                   made, alt>>
    /\ UNCHANGED <<fontVars, bitmapVars, coordVars>>

NextRender == DrawBeforeRender \/ Render \/ DebugRender

SpecRender == InitRender /\ [][NextRender]_vars

\* a sequence of chars without its trailing whitespace
TrimmedChars(cs) ==
    SubSeq(cs, 1, CHOOSE n \in 0..Len(cs) :
                      /\ n > 0 => ~is_whitespace(cs[n])
                      /\ \A i \in (n + 1)..Len(cs) : is_whitespace(cs[i]))

\* the chars of the cells of row r (from 1) of the buffer, in column order
RowChars(r) ==
    [k \in 1..(IF Len(data) - (r - 1) * width < width
               THEN Len(data) - (r - 1) * width ELSE width) |->
        LET cell == data[(r - 1) * width + k]
        IN  IF cell.tag = "Text" THEN cell.v
            ELSE generate_entry(RenderCharset, cell.v)]

\* C12: render writes one line per character row of the canvas and no
\* other line, and line r is the text or glyph-table characters of the
\* cells of row r without trailing whitespace, ended by a newline
C12_RenderRows ==
    rpc = "render" =>
        /\ Len(output) = Rows(data)
        /\ \A r \in 1..Len(output) :
               output[r] = collect_string(TrimmedChars(RowChars(r))) \o <<10>>

\* C13 as stated: debug_render writes 2 * rowCount + ceil((rowCount + 1) / 2)
\* lines
C13_DebugHeightCeil ==
    rpc = "debug" =>
        Len(output) = 2 * Rows(data) + (Rows(data) + 2) \div 2

\* C13 amended: debug_render writes 2 * rowCount + floor((rowCount + 1) / 2)
\* lines, one for every two of the 5 * rowCount pixel rows, rounded up
C13_DebugHeight ==
    rpc = "debug" =>
        /\ Len(output) = 2 * Rows(data) + (Rows(data) + 1) \div 2
        /\ 2 * Len(output) >= 5 * Rows(data)
        /\ 2 * Len(output) <= 5 * Rows(data) + 1

\* a canvas of two character rows, where the two roundings differ, was
\* rendered in five lines
C13_Witness ==
    /\ rpc = "debug"
    /\ Rows(data) = 2
    /\ Len(output) = 5

\* the data indexes of the text cells
TextCells == {i \in 0..(Len(data) - 1) : data[i + 1].tag = "Text"}

\* the block glyph of an upper and a lower pixel
Block(upper, lower) ==
    IF upper THEN (IF lower THEN 9608 ELSE 9600)
    ELSE (IF lower THEN 9604 ELSE 32)

\* what column x of line y depicts: the character of the text cell whose
\* middle pixel is there, or else the block glyph of its two pixels
Depicted(x, y) ==
    IF \E i \in TextCells :
           x = 3 * (i % width) + 1 /\ y = (5 * (i \div width) + 2) \div 2
    THEN data[(x \div 3) + width * ((2 * y) \div 5) + 1].v
    ELSE Block(get_pixel(Self, <<x, 2 * y>>), get_pixel(Self, <<x, 2 * y + 1>>))

\* C14: every line of debug_render is, before and after trimming, the
\* depiction of its 3 * width columns; every text cell's character and
\* every on pixel lie within the lines written
C14_DebugDepiction ==
    rpc = "debug" =>
        /\ \A y \in 0..(Len(output) - 1) :
               \A cs \in {[x \in 1..(3 * width) |-> Depicted(x - 1, y)]} :
                   /\ debug_line(Self, y) = collect_string(cs)
                   /\ output[y + 1] = collect_string(TrimmedChars(cs)) \o <<10>>
        /\ \A i \in TextCells : (5 * (i \div width) + 2) \div 2 < Len(output)
        /\ \A i \in 0..(Len(data) - 1) :
               \A p \in CellPixels(i) :
                   get_pixel(Self, p) => p[2] \div 2 < Len(output)

\* a canvas with text in its second row, where the middle pixel row is the
\* lower one of its line, and with pixels on in its third row
C14_Witness ==
    /\ rpc = "debug"
    /\ \E i \in TextCells : i \div width = 1
    /\ \E i \in 0..(Len(data) - 1) :
           i \div width = 2 /\ \E p \in CellPixels(i) : get_pixel(Self, p)

----------------------------------------------------------------------------
(* The buffer and the other fields of a canvas under drawing calls         *)

\* C15 as stated: the buffer holds whole rows
C15_WholeRows == Len(data) % width = 0

\* the data indexes the in-range writes of the last call address
WrittenIndexes ==
    {PixelWrites[k][1] \div 3 + width * (PixelWrites[k][2] \div 5) :
        k \in {j \in 1..Len(PixelWrites) : InRangePixel(PixelWrites[j])}}
    \cup {TextWrites[k].pos[1] + width * TextWrites[k].pos[2] :
            k \in {j \in 1..Len(TextWrites) : InRangeWrite(TextWrites[j])}}

\* C15 amended: the buffer never shrinks and ends with the cell of the
\* highest data index (column + width * row) a write has addressed, so that
\* only its last row may be incomplete
C15_BufferLength ==
    /\ Len(data) >= Len(prev)
    /\ \A i \in WrittenIndexes : i < Len(data)
    /\ Len(data) > Len(prev) => (Len(data) - 1) \in WrittenIndexes

\* a call left the buffer longer, and with an incomplete last row
C15_Witness ==
    /\ Len(data) > Len(prev)
    /\ Len(prev) > 0
    /\ Len(data) % width # 0

\* C16: the footnote list is empty and width and scale are those of
\* Canvas::new, and render writes the lines of its rows and no footnote
\* section
C16_NoFootnotes ==
    /\ footnotes = <<>>
    /\ width = made.width
    /\ scale = made.scale
    /\ render_footnotes(Self) = <<>>
    /\ rpc = "render" => Len(output) = Len(data) \div width + 1

\* a canvas was rendered after a draw_string whose text ran past the width
C16_Witness ==
    /\ rpc = "render"
    /\ last.op = "string"
    /\ \E k \in 1..Len(TextWrites) : OutOfRangeWrite(TextWrites[k])
    /\ data # prev

----------------------------------------------------------------------------
(* Two drawing calls in either order                                       *)

\* a drawing call as a record, and the canvas after it
RectCall(a, b) == [op |-> "rect", a |-> a, b |-> b, text |-> <<>>]
LineCall(a, b) == [op |-> "line", a |-> a, b |-> b, text |-> <<>>]
StringCall(coord, str) == [op |-> "string", a |-> coord, b |-> coord, text |-> str]

apply_call(self, call) ==
    CASE call.op = "rect" -> draw_rect(self, call.a, call.b)
      [] call.op = "line" -> draw_line(self, call.a, call.b)
      [] call.op = "string" -> draw_string(self, call.a, call.text)

PixelCalls ==
    {RectCall(r[1], r[2]) : r \in RectArgs} \cup {LineCall(l[1], l[2]) : l \in LineArgs}
DrawingCalls ==
    PixelCalls \cup {StringCall(o, t) : o \in StringOrigins, t \in StringTexts}

\* calls made on the canvas before the pair: none, a text, a box, a line
PriorCalls ==
    { <<>>,
      <<StringCall(<<1, 2>>, collect_string(<<97, 10, 98>>))>>,
      <<RectCall(<<1, 2>>, <<8, 13>>)>>,
      <<LineCall(<<5, 0>>, <<4, 21>>)>> }

InitPair ==
    /\ FontIdle /\ BitmapIdle /\ CoordIdle
    /\ \E w \in CanvasWidths, sc \in CanvasScales, calls \in PriorCalls :
       \E c \in {IF calls = <<>> THEN Canvas_new(w, sc)
                 ELSE apply_call(Canvas_new(w, sc), calls[1])} :
           /\ made = Canvas_new(w, sc)
           /\ data = c.data
           /\ width = c.width
           /\ scale = c.scale
           /\ footnotes = c.footnotes
           /\ prev = c.data
           /\ ncalls = Len(calls)
    /\ last = [op |-> "new", a |-> <<0, 0>>, b |-> <<0, 0>>, text |-> <<>>]
    /\ written = <<>>
    /\ alt = <<>> /\ output = <<>> /\ rpc = "idle"

\* the calls first and second made in this order, and alt the canvas of
\* second made before first
DrawPair(first, second) ==
    /\ last.op = "new"
    /\ \E after \in {apply_call(apply_call(Self, first), second)} :
           /\ data' = after.data
           /\ width' = after.width
           /\ scale' = after.scale
           /\ footnotes' = after.footnotes
    /\ alt' = apply_call(apply_call(Self, second), first)
    /\ prev' = data
    /\ last' = [op |-> "pair", a |-> first, b |-> second, text |-> <<>>]
    /\ ncalls' = ncalls + 2
    /\ UNCHANGED <<written, made, output, rpc>>
    /\ UNCHANGED <<fontVars, bitmapVars, coordVars>>

NextPair ==
    \E first \in PixelCalls, second \in DrawingCalls : DrawPair(first, second)

SpecPair == InitPair /\ [][NextPair]_vars

\* C17: two drawing calls of which one is draw_rect or draw_line leave the
\* same canvas in either order: the same cells and the same buffer length
C17_Commute ==
    last.op = "pair" =>
        /\ alt = Self
        /\ Len(alt.data) = Len(data)
        /\ \A k \in 1..Len(data) : alt.data[k] = data[k]

\* a box or line and a text were drawn over the same cell, which holds the
\* text, and the buffer grew
C17_Witness ==
    /\ last.op = "pair"
    /\ last.b.op = "string"
    /\ Len(data) > Len(prev)
    /\ \E i \in TextCells :
           /\ i >= Len(prev) \/ prev[i + 1].tag = "Bitmap"
           /\ \E p \in CellPixels(i) :
                  get_pixel(apply_call(Before, last.a), p)

====
